---------------------------- MODULE Spec2Model ----------------------------
(***************************************************************************)
(* The PO dashboard's data pipeline (src/processing.py): the name          *)
(* standardizers, the per-platform sheet reshaper _process_main_po_data,   *)
(* the details cleaner _fetch_and_clean_po_details and the orchestrator    *)
(* get_final_po_data.                                                      *)
(*                                                                         *)
(* Text is modelled as a sequence of one-character strings, so that        *)
(* trimming, case mapping, joining, splitting and the regular expressions  *)
(* are computed character by character.  A pandas NaN/None cell is the     *)
(* value NaN below, which is no text.                                      *)
(***************************************************************************)
EXTENDS Integers, Sequences, FiniteSets, TLC

VARIABLES
    env,          \* os.getenv: which configuration values are set
    pc,           \* position in get_final_po_data / _process_main_po_data
    idx,          \* position of the for loop in SHEET_NAMES
    csv,          \* what pd.read_csv returned for each platform read so far
    df,           \* the working frame(s) of the current loop iteration
    all_data,     \* the list all_data
    log,          \* what was printed (warnings and errors)
    main_po_df,   \* the return value of _process_main_po_data
    details_df,   \* the return value of _fetch_and_clean_po_details
    fetch_calls,  \* history: the details fetches, each with the loop position
    result,       \* what get_final_po_data returned or raised
    sku,          \* _standardize_sku_name: the argument
    cleaned_sku,  \* _standardize_sku_name: the local cleaned_sku
    pat,          \* _standardize_sku_name: position in patterns_to_remove
    fired,        \* history: the patterns whose substitution changed the text
    sku_pc,       \* _standardize_sku_name: position in the function
    sku_result    \* _standardize_sku_name: the return value

vars == <<env, pc, idx, csv, df, all_data, log, main_po_df, details_df,
          fetch_calls, result, sku, cleaned_sku, pat, fired, sku_pc, sku_result>>

pipeline_vars == <<env, pc, idx, csv, df, all_data, log, main_po_df, details_df,
                   fetch_calls, result>>

sku_vars == <<sku, cleaned_sku, pat, fired, sku_pc, sku_result>>

-----------------------------------------------------------------------------
(* Text *)

NaN == <<"NaN">>

IsStr(v) == v # NaN

LowerChars == <<"a","b","c","d","e","f","g","h","i","j","k","l","m","n","o","p","q","r","s","t","u","v","w","x","y","z">>

UpperChars == <<"A","B","C","D","E","F","G","H","I","J","K","L","M","N","O","P","Q","R","S","T","U","V","W","X","Y","Z">>

DigitChars == {"0","1","2","3","4","5","6","7","8","9"}

SpaceChars == {" ", "\t", "\n", "\r"}

IsSpace(c) == c \in SpaceChars

IsDigit(c) == c \in DigitChars

IsLowerChar(c) == \E i \in 1..Len(LowerChars) : LowerChars[i] = c

IsUpperChar(c) == \E i \in 1..Len(UpperChars) : UpperChars[i] = c

IsAlpha(c) == IsLowerChar(c) \/ IsUpperChar(c)

ToUpper(c) ==
    IF IsLowerChar(c)
    THEN UpperChars[CHOOSE i \in 1..Len(LowerChars) : LowerChars[i] = c]
    ELSE c

ToLower(c) ==
    IF IsUpperChar(c)
    THEN LowerChars[CHOOSE i \in 1..Len(UpperChars) : UpperChars[i] = c]
    ELSE c

\* str.upper()
Upper(s) == [i \in 1..Len(s) |-> ToUpper(s[i])]

\* str.lower()
Lower(s) == [i \in 1..Len(s) |-> ToLower(s[i])]

\* str.title(): a letter after a letter is lowered, any other letter is raised
Title(s) ==
    [i \in 1..Len(s) |->
        IF i > 1 /\ IsAlpha(s[i-1]) THEN ToLower(s[i]) ELSE ToUpper(s[i])]

\* str.strip()
Strip(s) ==
    LET keep == {i \in 1..Len(s) : ~IsSpace(s[i])}
    IN  IF keep = {} THEN <<>>
        ELSE LET lo == CHOOSE i \in keep : \A j \in keep : i <= j
                 hi == CHOOSE i \in keep : \A j \in keep : j <= i
             IN  SubSeq(s, lo, hi)

\* t occurs in s at position i
OccursAt(t, s, i) ==
    /\ i >= 1
    /\ i + Len(t) - 1 <= Len(s)
    /\ SubSeq(s, i, i + Len(t) - 1) = t

\* the Python expression: t in s
Contains(s, t) == \E i \in 1..(Len(s) + 1) : OccursAt(t, s, i)

Suffix(s, i) == SubSeq(s, i, Len(s))

-----------------------------------------------------------------------------
(* _standardize_city_name *)

CITY_PAIRS == <<
    << <<"A","H","M","E","D","A","B","A","D">>,
       <<"A","h","m","e","d","a","b","a","d">> >>,
    << <<"B","A","L","L","A","B","H","G","A","R","H">>,
       <<"B","a","l","l","a","b","h","g","a","r","h">> >>,
    << <<"B","A","L","L","A","B","H","G","R","A","H">>,
       <<"B","a","l","l","a","b","h","g","a","r","h">> >>,
    << <<"B","H","A","L","L","A","B","H","G","R","A","H">>,
       <<"B","a","l","l","a","b","h","g","a","r","h">> >>,
    << <<"B","A","N","G","A","L","O","R","E">>,
       <<"B","a","n","g","a","l","o","r","e">> >>,
    << <<"B","A","N","G","L","O","R","E">>,
       <<"B","a","n","g","a","l","o","r","e">> >>,
    << <<"B","A","N","G","L","O","R","E"," ","(","B","3",")">>,
       <<"B","a","n","g","a","l","o","r","e">> >>,
    << <<"B","A","N","G","L","O","R","E"," ","(","B","4",")">>,
       <<"B","a","n","g","a","l","o","r","e">> >>,
    << <<"B","A","N","G","L","O","R","E"," ","(","M","B","I",")">>,
       <<"B","a","n","g","a","l","o","r","e">> >>,
    << <<"B","A","N","G","L","O","R","E"," ","(","M","B","L",")">>,
       <<"B","a","n","g","a","l","o","r","e">> >>,
    << <<"B","I","L","A","S","P","U","R">>,
       <<"B","i","l","a","s","p","u","r">> >>,
    << <<"B","I","L","A","S","P","I","U","R">>,
       <<"B","i","l","a","s","p","u","r">> >>,
    << <<"B","O","H","R","A","K","A","L","A","N">>,
       <<"B","o","h","r","a","k","a","l","a","n">> >>,
    << <<"B","H","U","V","N","E","S","H","A","W","A","R">>,
       <<"B","h","u","b","a","n","e","s","w","a","r">> >>,
    << <<"B","H","U","V","N","E","S","H","W","A","R">>,
       <<"B","h","u","b","a","n","e","s","w","a","r">> >>,
    << <<"C","H","E","N","N","A","I">>,
       <<"C","h","e","n","n","a","i">> >>,
    << <<"C","H","E","N","N","A","I"," ","(","C","5",")">>,
       <<"C","h","e","n","n","a","i">> >>,
    << <<"C","H","E","N","N","I","A","I">>,
       <<"C","h","e","n","n","a","i">> >>,
    << <<"C","O","I","M","B","A","T","O","R","E">>,
       <<"C","o","i","m","b","a","t","o","r","e">> >>,
    << <<"D","E","L","H","I">>,
       <<"D","e","l","h","i">> >>,
    << <<"D","E","H","R","A","D","U","N">>,
       <<"D","e","h","r","a","d","u","n">> >>,
    << <<"G","U","R","G","A","O","N">>,
       <<"G","u","r","g","a","o","n">> >>,
    << <<"G","7">>,
       <<"G","u","r","g","a","o","n">> >>,
    << <<"G","U","W","A","H","A","T","I">>,
       <<"G","u","w","a","h","a","t","i">> >>,
    << <<"G","A","Z","I","A","B","A","D">>,
       <<"G","h","a","z","i","a","b","a","d">> >>,
    << <<"G","H","A","Z","I","A","B","A","D">>,
       <<"G","h","a","z","i","a","b","a","d">> >>,
    << <<"H","Y","D","E","R","A","B","A","D">>,
       <<"H","y","d","e","r","a","b","a","d">> >>,
    << <<"H","Y","D","E","R","A","B","A","D"," ","(","C","H","C",")">>,
       <<"H","y","d","e","r","a","b","a","d">> >>,
    << <<"H","Y","D","E","R","A","B","A","D"," ","(","C","H","M",")">>,
       <<"H","y","d","e","r","a","b","a","d">> >>,
    << <<"H","Y","D","E","R","A","B","A","D"," ","H","3">>,
       <<"H","y","d","e","r","a","b","a","d">> >>,
    << <<"H","Y","D","E","R","B","A","D">>,
       <<"H","y","d","e","r","a","b","a","d">> >>,
    << <<"J","H","A","J","J","A","R">>,
       <<"J","h","a","j","j","a","r">> >>,
    << <<"J","H","A","J","A","R">>,
       <<"J","h","a","j","j","a","r">> >>,
    << <<"J","H","A","J","J","A","R","2">>,
       <<"J","h","a","j","j","a","r">> >>,
    << <<"J","H","A","J","J","H","A","R"," ","2">>,
       <<"J","h","a","j","j","a","r">> >>,
    << <<"K","O","L","K","A","T","A">>,
       <<"K","o","l","k","a","t","a">> >>,
    << <<"K","U","N","D","L","I">>,
       <<"K","u","n","d","l","i">> >>,
    << <<"L","U","C","K","N","O","W">>,
       <<"L","u","c","k","n","o","w">> >>,
    << <<"M","O","H","A","L","I">>,
       <<"M","o","h","a","l","i">> >>,
    << <<"M","U","M","B","A","I">>,
       <<"M","u","m","b","a","i">> >>,
    << <<"M","U","M","B","A","I"," ","(","M","1","0",")">>,
       <<"M","u","m","b","a","i">> >>,
    << <<"M","U","M","B","A","I"," ","(","M","1","1",")">>,
       <<"M","u","m","b","a","i">> >>,
    << <<"M","U","M","B","A","I"," ","(","M","9",")">>,
       <<"M","u","m","b","a","i">> >>,
    << <<"N","O","I","D","A">>,
       <<"N","o","i","d","a">> >>,
    << <<"G","A","U","T","A","M"," ","B","U","D","H"," ","N","A","G","A","R">>,
       <<"N","o","i","d","a">> >>,
    << <<"P","U","N","E">>,
       <<"P","u","n","e">> >>,
    << <<"R","A","J","P","U","J","R","A">>,
       <<"R","a","j","p","u","r","a">> >>,
    << <<"R","A","J","P","U","R","A">>,
       <<"R","a","j","p","u","r","a">> >>,
    << <<"V","I","S","H","A","K","H","A","P","A","T","N","A","M">>,
       <<"V","i","s","a","k","h","a","p","a","t","n","a","m">> >>,
    << <<"B","H","O","P","A","L">>,
       <<"B","h","o","p","a","l">> >>,
    << <<"G","O","A">>,
       <<"G","o","a">> >>,
    << <<"H","A","P","U","R">>,
       <<"H","a","p","u","r">> >>,
    << <<"I","N","D","O","R","E">>,
       <<"I","n","d","o","r","e">> >>,
    << <<"J","A","I","P","U","R">>,
       <<"J","a","i","p","u","r">> >>,
    << <<"K","E","R","A","L","A">>,
       <<"K","e","r","a","l","a">> >>,
    << <<"L","U","D","H","I","A","N","A">>,
       <<"L","u","d","h","i","a","n","a">> >>,
    << <<"L","U","H","A","R","I">>,
       <<"L","u","h","a","r","i">> >>,
    << <<"N","A","G","P","U","R">>,
       <<"N","a","g","p","u","r">> >>,
    << <<"P","A","T","N","A">>,
       <<"P","a","t","n","a">> >>,
    << <<"R","A","N","C","H","I">>,
       <<"R","a","n","c","h","i">> >>,
    << <<"S","U","R","A","T">>,
       <<"S","u","r","a","t">> >>,
    << <<"V","A","R","A","N","A","S","I">>,
       <<"V","a","r","a","n","a","s","i">> >>,
    << <<"V","I","J","A","Y","A","W","A","D","A">>,
       <<"V","i","j","a","y","a","w","a","d","a">> >>
>>

\* CITY_MAPPING.get(key, default)
CityMappingGet(key, default) ==
    IF \E i \in 1..Len(CITY_PAIRS) : CITY_PAIRS[i][1] = key
    THEN CITY_PAIRS[CHOOSE i \in 1..Len(CITY_PAIRS) : CITY_PAIRS[i][1] = key][2]
    ELSE default

_standardize_city_name(city) ==
    IF ~IsStr(city) THEN city
    ELSE LET cleaned_city == Strip(city)
         IN  CityMappingGet(Upper(cleaned_city), Title(cleaned_city))

-----------------------------------------------------------------------------
(* _standardize_sku_name *)

exceptions == << <<"R","u","s","k">>, <<"C","o","o","k","i","e","s">> >>

\* any(exception in sku for exception in exceptions)
HasException(s) == \E k \in 1..Len(exceptions) : Contains(s, exceptions[k])

Pouch == <<"(","P","o","u","c","h",")">>

\* A faulty variant of patterns_to_remove: the two weight patterns compiled
\* without re.IGNORECASE.
patterns_case_sensitive ==
    << [kind |-> "weight", letter |-> "g", ignorecase |-> FALSE],
       [kind |-> "weight", letter |-> "G", ignorecase |-> FALSE],
       [kind |-> "number", letter |-> "",  ignorecase |-> FALSE],
       [kind |-> "pouch",  letter |-> "",  ignorecase |-> TRUE] >>

\* \s+\d+\s*g$ (I), \s+\d+\s*G$ (I), \s+\d+$, \s*\(Pouch\)$ (I)
patterns_to_remove ==
    << [kind |-> "weight", letter |-> "g", ignorecase |-> TRUE],
       [kind |-> "weight", letter |-> "G", ignorecase |-> TRUE],
       [kind |-> "number", letter |-> "",  ignorecase |-> FALSE],
       [kind |-> "pouch",  letter |-> "",  ignorecase |-> TRUE] >>

AllSpace(t, lo, hi) == \A i \in lo..hi : IsSpace(t[i])

AllDigit(t, lo, hi) == \A i \in lo..hi : IsDigit(t[i])

SameChar(c, d, ignorecase) == IF ignorecase THEN ToLower(c) = ToLower(d) ELSE c = d

\* t, whole, matches \s+\d+
MatchNumber(t) ==
    \E a \in 1..(Len(t) - 1) : AllSpace(t, 1, a) /\ AllDigit(t, a + 1, Len(t))

\* t, whole, matches \s+\d+\s*<letter>
MatchWeight(t, letter, ignorecase) ==
    /\ Len(t) >= 3
    /\ SameChar(t[Len(t)], letter, ignorecase)
    /\ \E a \in 1..(Len(t) - 2) : \E b \in (a + 1)..(Len(t) - 1) :
          /\ AllSpace(t, 1, a)
          /\ AllDigit(t, a + 1, b)
          /\ AllSpace(t, b + 1, Len(t) - 1)

\* t, whole, matches \s*\(Pouch\)
MatchPouch(t, ignorecase) ==
    /\ Len(t) >= Len(Pouch)
    /\ AllSpace(t, 1, Len(t) - Len(Pouch))
    /\ \A i \in 1..Len(Pouch) :
          SameChar(t[Len(t) - Len(Pouch) + i], Pouch[i], ignorecase)

\* t, whole, matches the pattern p without its $
MatchPattern(p, t) ==
    CASE p.kind = "weight" -> MatchWeight(t, p.letter, p.ignorecase)
      [] p.kind = "number" -> MatchNumber(t)
      [] p.kind = "pouch"  -> MatchPouch(t, p.ignorecase)

\* pattern.search(s): the start positions of a match that ends at the end of s
\* (the texts of the model hold no line break, so $ is the end of the text)
MatchStarts(p, s) == {i \in 1..Len(s) : MatchPattern(p, Suffix(s, i))}

\* pattern.sub('', s): the leftmost match is removed; it ends the text, so
\* no second match follows it
PatternSub(p, s) ==
    LET starts == MatchStarts(p, s)
    IN  IF starts = {} THEN s
        ELSE SubSeq(s, 1, (CHOOSE i \in starts : \A j \in starts : i <= j) - 1)

\* for pattern in patterns_to_remove[k..]: cleaned_sku = pattern.sub('', cleaned_sku)
RECURSIVE ApplyPatterns(_, _)
ApplyPatterns(s, k) ==
    IF k > Len(patterns_to_remove) THEN s
    ELSE ApplyPatterns(PatternSub(patterns_to_remove[k], s), k + 1)

_standardize_sku_name(s) ==
    IF ~IsStr(s) THEN s
    ELSE IF HasException(s) THEN s
    ELSE Strip(ApplyPatterns(s, 1))

-----------------------------------------------------------------------------
(* Frames: a pandas DataFrame is its row labels (index), its column labels
   and its cells, row by row *)

\* pd.read_csv(csv_url, header=None) of a grid of cells
ReadFrame(grid) ==
    [index   |-> [i \in 1..Len(grid) |-> i - 1],
     columns |-> [j \in 1..Len(grid[1]) |-> j - 1],
     data    |-> grid]

SeqToSet(q) == {q[i] : i \in 1..Len(q)}

\* the elements of q, in order, at the positions in keep, from position i on
RECURSIVE SelectIdx(_, _, _)
SelectIdx(q, keep, i) ==
    IF i > Len(q) THEN <<>>
    ELSE (IF i \in keep THEN <<q[i]>> ELSE <<>>) \o SelectIdx(q, keep, i + 1)

\* f.drop(index=labels) raises KeyError unless every label is a row label
DropIndexRaises(f, labels) == ~(labels \subseteq SeqToSet(f.index))

DropIndex(f, labels) ==
    LET keep == {i \in 1..Len(f.index) : f.index[i] \notin labels}
    IN  [f EXCEPT !.index = SelectIdx(f.index, keep, 1),
                  !.data  = SelectIdx(f.data, keep, 1)]

\* f.drop(columns=labels)
DropColumnsRaises(f, labels) == ~(labels \subseteq SeqToSet(f.columns))

DropColumns(f, labels) ==
    LET keep == {j \in 1..Len(f.columns) : f.columns[j] \notin labels}
    IN  [f EXCEPT !.columns = SelectIdx(f.columns, keep, 1),
                  !.data = [i \in 1..Len(f.data) |-> SelectIdx(f.data[i], keep, 1)]]

\* f.columns = range(f.shape[1])
RenumberColumns(f) == [f EXCEPT !.columns = [j \in 1..Len(f.columns) |-> j - 1]]

Min(a, b) == IF a <= b THEN a ELSE b

Max(a, b) == IF a >= b THEN a ELSE b

\* f.iloc[lo-1:hi] on the rows (positions lo..hi, clipped)
IlocRows(f, lo, hi) ==
    [f EXCEPT !.index = SubSeq(f.index, lo, Min(hi, Len(f.index))),
              !.data  = SubSeq(f.data, lo, Min(hi, Len(f.data)))]

\* f.iloc[:, lo-1:hi] on the columns
IlocCols(f, lo, hi) ==
    [f EXCEPT !.columns = SubSeq(f.columns, lo, Min(hi, Len(f.columns))),
              !.data = [i \in 1..Len(f.data) |->
                           SubSeq(f.data[i], lo, Min(hi, Len(f.data[i])))]]

-----------------------------------------------------------------------------
(* Conversions of cells *)

\* f"{cell}": a NaN cell is formatted as the text nan
Fmt(cell) == IF cell = NaN THEN <<"n","a","n">> ELSE cell

LabelSep == <<" ","|"," ">>

\* f"{date} | {city} | {po}"
MergedLabel(date, city, po) ==
    Fmt(date) \o LabelSep \o Fmt(city) \o LabelSep \o Fmt(po)

\* the first position at which sep occurs in s, 0 when it does not
FirstOccurrence(sep, s) ==
    LET at == {i \in 1..Len(s) : OccursAt(sep, s, i)}
    IN  IF at = {} THEN 0 ELSE CHOOSE i \in at : \A j \in at : i <= j

\* str.split(sep, n): at most n splits, all of them when n < 0; sep is a
\* literal (" \| " is the regular expression of the literal " | ")
RECURSIVE SplitN(_, _, _)
SplitN(s, sep, n) ==
    LET i == FirstOccurrence(sep, s)
    IN  IF n = 0 \/ i = 0 THEN <<s>>
        ELSE <<SubSeq(s, 1, i - 1)>> \o
             SplitN(SubSeq(s, i + Len(sep), Len(s)), sep, n - 1)

\* expand=True: as many columns as the longest split, the shorter padded
ExpandWidth(splits) ==
    IF splits = <<>> THEN 0
    ELSE CHOOSE w \in {Len(splits[i]) : i \in 1..Len(splits)} :
             \A i \in 1..Len(splits) : Len(splits[i]) <= w

Part(partsOfRow, k) == IF k <= Len(partsOfRow) THEN partsOfRow[k] ELSE NaN

DigitSeq == <<"0","1","2","3","4","5","6","7","8","9">>

DigitVal(c) == (CHOOSE i \in 1..Len(DigitSeq) : DigitSeq[i] = c) - 1

RECURSIVE NumVal(_)
NumVal(s) ==
    IF s = <<>> THEN 0
    ELSE 10 * NumVal(SubSeq(s, 1, Len(s) - 1)) + DigitVal(s[Len(s)])

IsLeap(y) == (y % 4 = 0 /\ y % 100 # 0) \/ y % 400 = 0

DaysIn(y, m) ==
    IF m = 2 THEN (IF IsLeap(y) THEN 29 ELSE 28)
    ELSE IF m \in {4, 6, 9, 11} THEN 30 ELSE 31

\* s is a calendar date written YYYY-MM-DD
IsIsoDate(s) ==
    /\ Len(s) = 10
    /\ s[5] = "-" /\ s[8] = "-"
    /\ \A i \in {1, 2, 3, 4, 6, 7, 9, 10} : IsDigit(s[i])
    /\ LET y == NumVal(SubSeq(s, 1, 4))
           m == NumVal(SubSeq(s, 6, 7))
           d == NumVal(SubSeq(s, 9, 10))
       IN  y >= 1 /\ m \in 1..12 /\ d \in 1..DaysIn(y, m)

\* pd.to_datetime(x, errors='coerce') then .dt.strftime('%Y-%m-%d'), on the
\* date texts of the modelled sheets: a date written YYYY-MM-DD is kept as
\* written, any other text of the sheets is one pandas cannot read (NaT)
ParseDate(x) == IF IsStr(x) /\ IsIsoDate(x) THEN x ELSE NaN

\* pd.to_numeric(x, errors='coerce') on the quantity texts of the modelled
\* sheets (whole numbers with an optional sign, or no number at all):
\* <<n>> is the number n, <<>> is NaN
ToNumeric(x) ==
    IF ~IsStr(x) \/ x = <<>> THEN <<>>
    ELSE IF x[1] = "-" /\ Len(x) >= 2 /\ AllDigit(x, 2, Len(x))
         THEN <<0 - NumVal(SubSeq(x, 2, Len(x)))>>
    ELSE IF AllDigit(x, 1, Len(x)) THEN <<NumVal(x)>>
    ELSE <<>>

NumIsNa(q) == q = <<>>

-----------------------------------------------------------------------------
(* _process_main_po_data *)

SHEET_NAMES == << <<"B","l","i","n","k","i","t">>, <<"S","w","i","g","g","y">>, <<"B","i","g"," ","B","a","s","k","e","t">>, <<"F","l","i","p","k","a","r","t">>, <<"Z","e","p","t","o">> >>

Zepto == <<"Z","e","p","t","o">>

TypoComposite == <<"B","a","l","l","b","h","g","a","r","h","/","/","Z","e","p","t","o">>

FixedComposite == <<"B","a","l","l","a","b","h","g","a","r","h","/","Z","e","p","t","o">>

\* lines 129-130 (Zepto only): the leading column is dropped
ZeptoLeadRaises(f) == DropColumnsRaises(f, {0})

ZeptoLead(f) == RenumberColumns(DropColumns(f, {0}))

\* lines 128-130 / 144: the frame the common slicing starts from
RawOf(sheet, f) == IF sheet = Zepto THEN ZeptoLead(f) ELSE f

\* lines 131-132 / 145-146: drop(index=[0]) and iloc[:-2]
Body(f) == LET g == DropIndex(f, {0}) IN IlocRows(g, 1, Len(g.index) - 2)

\* lines 133 / 147
FixedPart(f) == IlocCols(Body(f), 1, 4)

\* lines 134 / 148
DynamicPart(f) == IlocCols(Body(f), 5, Len(Body(f).columns))

\* A faulty variant of FixedData: the rows are taken from the third on.
FixedDataFromThird(f) ==
    LET g == DropIndex(FixedPart(f), {1, 3}) IN IlocRows(g, 3, Len(g.index))

\* lines 135, 138 / 149, 152: drop(index=[1, 3]) by label, then iloc[1:]
FixedData(f) ==
    LET g == DropIndex(FixedPart(f), {1, 3}) IN IlocRows(g, 2, Len(g.index))

\* lines 137 / 151: iloc[3:]
DynamicData(f) ==
    LET g == DynamicPart(f) IN IlocRows(g, 4, Len(g.index))

\* lines 136, 139 / 150, 153: the label of each dynamic column, from the
\* first three rows of the dynamic part
MergedColumns(f) ==
    LET g == DynamicPart(f)
    IN  [j \in 1..Len(g.columns) |->
            MergedLabel(g.data[1][j], g.data[2][j], g.data[3][j])]

\* lines 141-142 / 155-156
IdVars(sheet) ==
    IF sheet = Zepto
    THEN <<"SKU Code", "SKU", "Grammage", "Cases">>
    ELSE <<"Item Code", "SKU", "Grammage", "Cases">>

\* lines 127-156 raise: a label to drop is missing (KeyError), the dynamic
\* part has fewer than three rows (IndexError), or the fixed part has not
\* four columns to name (ValueError)
SliceRaises(sheet, f0) ==
    \/ sheet = Zepto /\ ZeptoLeadRaises(f0)
    \/ LET f == RawOf(sheet, f0)
       IN  \/ DropIndexRaises(f, {0})
           \/ DropIndexRaises(FixedPart(f), {1, 3})
           \/ Len(DynamicPart(f).index) < 3
           \/ Len(FixedPart(f).columns) # Len(IdVars(sheet))

\* line 158: pd.concat([fixed.reset_index(drop=True),
\* dynamic.reset_index(drop=True)], axis=1): the rows are paired by position
\* and the shorter frame is filled with NaN
CombinedRows(fixed, dynamic) == Max(Len(fixed.data), Len(dynamic.data))

CombinedCell(g, i, j) == IF i <= Len(g.data) THEN g.data[i][j] ELSE NaN

\* line 159: melt, one row per (row, dynamic column), column by column; the
\* rows are labelled 0, 1, ... in that order
Melt(id_vars, fixed, dynamic, merged_columns) ==
    LET n == CombinedRows(fixed, dynamic)
        m == Len(merged_columns)
    IN  [k \in 1..(n * m) |->
            LET i == ((k - 1) % n) + 1
                j == ((k - 1) \div n) + 1
            IN  [ix |-> k - 1,
                 v  |-> [c \in SeqToSet(id_vars) \cup {"MergedCol", "Quantity"} |->
                           IF c = "MergedCol" THEN merged_columns[j]
                           ELSE IF c = "Quantity" THEN CombinedCell(dynamic, i, j)
                           ELSE CombinedCell(fixed, i,
                                    CHOOSE p \in 1..Len(id_vars) : id_vars[p] = c)]]]

\* r with the columns of new set or added
WithCols(r, new) ==
    [r EXCEPT !.v = [c \in DOMAIN r.v \cup DOMAIN new |->
                        IF c \in DOMAIN new THEN new[c] ELSE r.v[c]]]

\* r without the columns in gone
WithoutCols(r, gone) == [r EXCEPT !.v = [c \in DOMAIN r.v \ gone |-> r.v[c]]]

\* the rows of q, in order, that satisfy Keep
FilterRows(q, keep) == SelectIdx(q, keep, 1)

\* line 160: the label split back on " | "
LabelSplits(melted) ==
    [k \in 1..Len(melted) |-> SplitN(melted[k].v["MergedCol"], LabelSep, 0 - 1)]

\* line 160 raises ValueError unless the split yields exactly three columns
LabelSplitRaises(melted) == ExpandWidth(LabelSplits(melted)) # 3

\* lines 160-161
SplitLabels(melted) ==
    [k \in 1..Len(melted) |->
        LET parts == LabelSplits(melted)[k]
        IN  WithoutCols(
              WithCols(melted[k],
                [c \in {"Date", "City/Platform", "PO Number"} |->
                    IF c = "Date" THEN Part(parts, 1)
                    ELSE IF c = "City/Platform" THEN Part(parts, 2)
                    ELSE Part(parts, 3)]),
              {"MergedCol"})]

\* line 162: the rows whose three parts are all the empty text are dropped
NotAllEmpty(r) ==
    ~(r.v["Date"] = <<>> /\ r.v["City/Platform"] = <<>> /\ r.v["PO Number"] = <<>>)

DropUnusedColumns(rows) ==
    FilterRows(rows, {i \in 1..Len(rows) : NotAllEmpty(rows[i])})

\* A faulty variant of ReplaceTypo: the correction is left out.
ReplaceTypoOmitted(composite) == composite

\* line 163: Series.replace of the whole value
ReplaceTypo(composite) ==
    IF composite = TypoComposite THEN FixedComposite ELSE composite

Slash == <<"/">>

\* line 164: str.split("/", n=1)
CitySplits(rows) ==
    [k \in 1..Len(rows) |->
        IF IsStr(rows[k].v["City/Platform"])
        THEN SplitN(ReplaceTypo(rows[k].v["City/Platform"]), Slash, 1)
        ELSE <<>>]

\* line 164 raises ValueError unless the split yields exactly two columns
CitySplitRaises(rows) == ExpandWidth(CitySplits(rows)) # 2

\* A faulty variant of PlatformOf: the platform is the suffix of the composite.
PlatformFromSuffix(sheet, suffix) == suffix

\* line 165: the sheet's name overrides the suffix split off in line 164
PlatformOf(sheet, suffix) == sheet

\* lines 163-168 on one row
CleanRow(sheet, r, parts) ==
    WithCols(r,
      [c \in {"City/Platform", "City", "Platform", "Date", "Quantity"} |->
          IF c = "City/Platform" THEN ReplaceTypo(r.v["City/Platform"])
          ELSE IF c = "City" THEN _standardize_city_name(Part(parts, 1))
          ELSE IF c = "Platform" THEN PlatformOf(sheet, Part(parts, 2))
          ELSE IF c = "Date" THEN ParseDate(r.v["Date"])
          ELSE ToNumeric(r.v["Quantity"])])

CleanRows(sheet, rows) ==
    [k \in 1..Len(rows) |-> CleanRow(sheet, rows[k], CitySplits(rows)[k])]

\* lines 160-168 raise
SplitRaises(melted) ==
    \/ LabelSplitRaises(melted)
    \/ CitySplitRaises(DropUnusedColumns(SplitLabels(melted)))

\* lines 160-168
SplitAndClean(sheet, melted) ==
    CleanRows(sheet, DropUnusedColumns(SplitLabels(melted)))

\* line 171: dropna(subset=['Quantity']); line 172: Quantity > 0
QuantityPositive(r) == ~NumIsNa(r.v["Quantity"]) /\ r.v["Quantity"][1] > 0

FinalColumns == {"SKU Code", "SKU", "City", "Platform", "Date", "PO Number", "Quantity"}

\* lines 174-176: the identifier column renamed, the seven columns selected
SelectFinal(r) ==
    [r EXCEPT !.v = [c \in FinalColumns |->
                        IF c = "SKU Code" /\ "Item Code" \in DOMAIN r.v
                        THEN r.v["Item Code"] ELSE r.v[c]]]

\* line 177: dropna(subset=[...])
NoneNull(r) ==
    \A c \in {"SKU Code", "City", "Platform", "Date", "PO Number"} : r.v[c] # NaN

\* line 178: astype(str).str.strip(); line 182: the SKU standardized
FinishRow(r) ==
    [r EXCEPT !.v["PO Number"] = Strip(Fmt(r.v["PO Number"])),
              !.v["SKU"] = _standardize_sku_name(r.v["SKU"])]

\* lines 171-182
FinalDf(cleaned) ==
    LET kept   == FilterRows(cleaned, {i \in 1..Len(cleaned) : QuantityPositive(cleaned[i])})
        chosen == [k \in 1..Len(kept) |-> SelectFinal(kept[k])]
        whole  == FilterRows(chosen, {i \in 1..Len(chosen) : NoneNull(chosen[i])})
    IN  [k \in 1..Len(whole) |-> FinishRow(whole[k])]

\* line 190: pd.concat(all_data, ignore_index=True)
RECURSIVE ConcatFrames(_)
ConcatFrames(frames) ==
    IF frames = <<>> THEN <<>> ELSE Head(frames) \o ConcatFrames(Tail(frames))

Concat(frames) ==
    LET rows == ConcatFrames(frames)
    IN  [k \in 1..Len(rows) |-> [rows[k] EXCEPT !.ix = k - 1]]

-----------------------------------------------------------------------------
(* _fetch_and_clean_po_details and the merge of get_final_po_data *)

\* line 209: rename(columns={'PO No.': 'PO Number', 'PO Value': 'PO VALUE'})
RenameColumn(c) ==
    IF c = "PO No." THEN "PO Number"
    ELSE IF c = "PO Value" THEN "PO VALUE"
    ELSE c

\* line 214
columns_to_keep ==
    <<"PO Number", "DISPATCH DATE", "APPOINTMENT DATE", "LEAD TIME", "PO VALUE", "PO INVOICE">>

DateColumns == {"DISPATCH DATE", "APPOINTMENT DATE"}

\* A faulty variant of ConfigMissing: the error needs both values unset.
ConfigMissingBoth(e) == ~e.sec_sheet /\ ~e.sec_gid

\* line 199: not sheet_id or not gid
ConfigMissing(e) == ~e.sec_sheet \/ ~e.sec_gid

\* line 211
IdColumnMissing(d) ==
    "PO Number" \notin {RenameColumn(d.columns[j]) : j \in 1..Len(d.columns)}

\* lines 209-222: the columns renamed, the listed ones kept, the dates parsed
KeptRows(d) ==
    LET names == [j \in 1..Len(d.columns) |-> RenameColumn(d.columns[j])]
        kept  == {c \in SeqToSet(columns_to_keep) : c \in SeqToSet(names)}
    IN  [i \in 1..Len(d.data) |->
            [ix |-> i - 1,
             v  |-> [c \in kept |->
                       LET cell == d.data[i][CHOOSE j \in 1..Len(names) : names[j] = c]
                       IN  IF c \in DateColumns THEN ParseDate(cell) ELSE cell]]]

\* line 224: astype(str).str.strip()
TrimPONumbers(rows) ==
    [i \in 1..Len(rows) |->
        [rows[i] EXCEPT !.v["PO Number"] = Strip(Fmt(rows[i].v["PO Number"]))]]

\* A faulty variant of DropDuplicates: the last row of each PO Number is kept.
DropDuplicatesKeepLast(rows) ==
    SelectIdx(rows,
        {i \in 1..Len(rows) :
            \A j \in (i + 1)..Len(rows) : rows[j].v["PO Number"] # rows[i].v["PO Number"]},
        1)

\* line 225: drop_duplicates(subset=['PO Number']) keeps the first of each
DropDuplicates(rows) ==
    SelectIdx(rows,
        {i \in 1..Len(rows) :
            \A j \in 1..(i - 1) : rows[j].v["PO Number"] # rows[i].v["PO Number"]},
        1)

\* lines 209-227
CleanDetails(d) == DropDuplicates(TrimPONumbers(KeptRows(d)))

\* DataFrame.empty
IsEmpty(frame) == Len(frame) = 0

\* the columns of a frame of rows
ColumnsOf(rows) == IF rows = <<>> THEN {} ELSE DOMAIN rows[1].v

\* A faulty variant of Merge: an inner join.
MergeInner(left, right) ==
    LET add == ColumnsOf(right) \ {"PO Number"}
        out == [i \in 1..Len(left) |->
                   LET hits == SelectIdx(right,
                                   {j \in 1..Len(right) :
                                       right[j].v["PO Number"] = left[i].v["PO Number"]}, 1)
                   IN  [h \in 1..Len(hits) |-> WithCols(left[i], [c \in add |-> hits[h].v[c]])]]
    IN  Concat(out)

\* lines 248-253: pd.merge(main_po_df, details_df, on='PO Number', how='left'):
\* each left row, in order, once for every right row with its PO Number, and
\* once with NaN when there is none
Merge(left, right) ==
    LET add == ColumnsOf(right) \ {"PO Number"}
        out == [i \in 1..Len(left) |->
                   LET hits == SelectIdx(right,
                                   {j \in 1..Len(right) :
                                       right[j].v["PO Number"] = left[i].v["PO Number"]}, 1)
                   IN  IF hits = <<>>
                       THEN <<WithCols(left[i], [c \in add |-> NaN])>>
                       ELSE [h \in 1..Len(hits) |->
                                WithCols(left[i], [c \in add |-> hits[h].v[c]])]]
    IN  Concat(out)

-----------------------------------------------------------------------------
(* The sheets the runs read *)

MaxItems == 2

MaxCols == 2

MaxDetailRows == 2

\* the header of a dynamic column and the quantities below it (repeated in
\* turn down the item rows)
ColumnKinds ==
    << [date |-> <<"2","0","2","4","-","0","1","-","0","5">>, city |-> <<"D","e","l","h","i","/","B","l","i","n","k","i","t">>, po |-> <<"P","O","1">>,
        qty |-> << <<"5">>, <<"0">>, <<"1","2">> >>],
       [date |-> <<"2","0","2","4","-","0","2","-","2","9">>, city |-> TypoComposite, po |-> <<" ","P","O","2"," ">>,
        qty |-> << <<"7">>, <<"a","b","c">>, NaN >>],
       [date |-> <<"2","0","2","4","-","0","1","-","0","5">>, city |-> <<" ","b","a","n","g","l","o","r","e"," ","(","b","3",")","/","S","w","i","g","g","y">>, po |-> NaN,
        qty |-> << <<"3">>, <<"-","3">> >>],
       [date |-> NaN, city |-> NaN, po |-> NaN,
        qty |-> << NaN, <<"4">> >>],
       [date |-> <<"T","o","t","a","l">>, city |-> <<"P","u","n","e">>, po |-> <<"P","O","3">>,
        qty |-> << <<"8">> >>],
       [date |-> <<"2","0","2","4","-","0","1","-","0","5">>, city |-> <<"G","o","a"," ","|"," ","P","a","n","a","j","i","/","Z","e","p","t","o">>, po |-> <<"P","O","1">>,
        qty |-> << <<"1">> >>],
       [date |-> <<"2","0","2","4","-","0","1","-","0","7">>, city |-> NaN, po |-> <<"P","O","4">>,
        qty |-> << <<"2">> >>] >>

\* the fixed cells of an item row: code, SKU, grammage, cases
ItemKinds ==
    << << <<"S","K","1">>, <<"C","h","o","c","o"," ","B","a","r"," ","1","5","0","g">>, <<"1","5","0">>, <<"2","4">> >>,
       << NaN, <<"I","t","e","m"," ","2","8">>, <<"2","8">>, NaN >>,
       << <<"S","K","3">>, <<"P","r","e","m","i","u","m"," ","R","u","s","k"," ","1","5","0","g">>, NaN, <<"1","2">> >> >>

Cyclic(q, i) == q[((i - 1) % Len(q)) + 1]

Items(n, off) == [i \in 1..n |-> Cyclic(ItemKinds, i + off)]

\* a sheet as the platform exports it: the title row, the three header rows
\* (dates, column names and city/platform composites, PO numbers), the item
\* rows and two footer rows; lead: with the leading index column
MkSheet(lead, items, cols) ==
    LET n == Len(items)
        m == Len(cols)
        blank == [j \in 1..m |-> NaN]
        body == << << <<"P","O"," ","S","h","e","e","t">>, NaN, NaN, NaN >> \o blank,
                   << NaN, NaN, NaN, NaN >> \o [j \in 1..m |-> cols[j].date],
                   << <<"I","t","e","m"," ","C","o","d","e">>, <<"S","K","U">>, <<"G","r","a","m","m","a","g","e">>, <<"C","a","s","e","s">> >>
                       \o [j \in 1..m |-> cols[j].city],
                   << NaN, NaN, NaN, NaN >> \o [j \in 1..m |-> cols[j].po] >>
                \o [i \in 1..n |->
                       items[i] \o [j \in 1..m |-> Cyclic(cols[j].qty, i)]]
                \o << << <<"T","o","t","a","l">>, NaN, NaN, NaN >> \o blank,
                      << NaN, NaN, NaN, NaN >> \o blank >>
    IN  [i \in 1..Len(body) |-> IF lead THEN << <<"#">> >> \o body[i] ELSE body[i]]

Read(grid) == [ok |-> TRUE, grid |-> grid]

\* read_csv raised (the export could not be fetched or parsed)
ReadFailed == [ok |-> FALSE, grid |-> <<>>]

HasLead(sheet) == sheet = Zepto

\* a sheet cut after its first k rows
Cut(sheet, k) ==
    SubSeq(MkSheet(HasLead(sheet), Items(1, 0), <<ColumnKinds[1]>>), 1, k)

\* a sheet cut after its title row and two header rows
Truncated(sheet) == Cut(sheet, 3)

\* a sheet without dynamic columns and with a fixed column short
Narrow(sheet) ==
    LET g == MkSheet(HasLead(sheet), Items(1, 0), <<>>)
    IN  [i \in 1..Len(g) |-> SubSeq(g[i], 1, Len(g[i]) - 1)]

WellFormed(sheet) ==
    { MkSheet(HasLead(sheet), Items(n, off), [j \in 1..m |-> ColumnKinds[kinds[j]]]) :
        <<n, off, m, kinds>> \in
            { <<n, off, m, kinds>> \in
                  (0..MaxItems) \X {0, 1} \X (0..MaxCols) \X
                  UNION {[1..m -> 1..Len(ColumnKinds)] : m \in 0..MaxCols} :
              /\ Len(kinds) = m
              /\ n = 0 => off = 0 } }

\* what reading the sheet of one platform may return
RichSheets(sheet) ==
    {ReadFailed, Read(Narrow(sheet))}
        \cup {Read(Cut(sheet, k)) : k \in 1..6}
        \cup {Read(g) : g \in WellFormed(sheet)}

ZeroColumn ==
    [date |-> <<"2","0","2","4","-","0","1","-","0","5">>, city |-> <<"D","e","l","h","i","/","B","l","i","n","k","i","t">>, po |-> <<"P","O","1">>,
     qty |-> << <<"0">> >>]

\* a sheet whose reshaping raises, at a step that depends on the platform
Broken(sheet) ==
    IF sheet = SHEET_NAMES[1] THEN Truncated(sheet)
    ELSE IF sheet = SHEET_NAMES[2]
         THEN MkSheet(FALSE, Items(1, 0), <<ColumnKinds[6]>>)
    ELSE IF sheet = SHEET_NAMES[3]
         THEN MkSheet(FALSE, Items(1, 0), <<ColumnKinds[5]>>)
    ELSE IF sheet = SHEET_NAMES[4]
         THEN MkSheet(FALSE, <<>>, <<ColumnKinds[1]>>)
    ELSE Narrow(sheet)

\* read failure, a sheet that raises, a sheet with one line item, a sheet
\* whose rows are all filtered out
SmallSheets(sheet) ==
    {ReadFailed,
     Read(Broken(sheet)),
     Read(MkSheet(HasLead(sheet), Items(1, 0), <<ColumnKinds[1]>>)),
     Read(MkSheet(HasLead(sheet), Items(1, 0), <<ZeroColumn>>))}

\* sheets whose line items carry the PO numbers PO1, PO2 and nan
POSheets(sheet) ==
    {ReadFailed,
     Read(Broken(sheet)),
     Read(MkSheet(HasLead(sheet), Items(1, 0),
                  <<ColumnKinds[1], ColumnKinds[2], ColumnKinds[3]>>)),
     Read(MkSheet(HasLead(sheet), Items(3, 0), <<ColumnKinds[1]>>))}

\* the PO Number cells of the details sheet
DetailPOs == { <<"P","O","1">>, <<" ","P","O","1"," ">>, <<"P","O","2">>, NaN }

DetailValues == << <<"1","0","0">>, <<"2","0","0">>, <<"3","0","0">>, <<"4","0","0">> >>

DetailDates == << <<"2","0","2","4","-","0","1","-","0","9">>, <<"s","o","o","n">>, NaN >>

\* the details sheet with a PO No. and a PO Value column
DetailsA(pos) ==
    [ok |-> TRUE,
     columns |-> <<"S.No", "PO No.", "PO Value", "DISPATCH DATE">>,
     data |-> [i \in 1..Len(pos) |->
                  << NaN, pos[i], Cyclic(DetailValues, i), Cyclic(DetailDates, i) >>]]

\* the details sheet with the columns already named as kept
DetailsB(pos) ==
    [ok |-> TRUE,
     columns |-> <<"PO INVOICE", "PO Number">>,
     data |-> [i \in 1..Len(pos) |-> << Cyclic(DetailValues, i), pos[i] >>]]

\* the details sheet without its identifier column
DetailsNoId ==
    [ok |-> TRUE, columns |-> <<"PO", "PO VALUE">>,
     data |-> << << <<"P","O","1">>, <<"1","0","0">> >> >>]

DetailsReadFailed == [ok |-> FALSE, columns |-> <<>>, data |-> <<>>]

RichDetails ==
    {DetailsReadFailed, DetailsNoId}
        \cup UNION { {DetailsA(pos), DetailsB(pos)} :
                        pos \in UNION {[1..n -> DetailPOs] : n \in 0..MaxDetailRows} }

SmallDetails ==
    {DetailsReadFailed, DetailsNoId, DetailsA(<<>>),
     DetailsA(<< <<"P","O","1">>, <<" ","P","O","1"," ">> >>)}

-----------------------------------------------------------------------------
(* The run *)

CurrentSheet == SHEET_NAMES[idx]

Returned(table) == [kind |-> "returned", error |-> "", table |-> table]

Raised(error) == [kind |-> "raised", error |-> error, table |-> <<>>]

NoResult == [kind |-> "none", error |-> "", table |-> <<>>]

\* line 200
ConfigError == "ValueError: SEC_PO_SHEET and GID_SEC_PO environment variables must be set."

\* the name under which the read of the details sheet is recorded in csv
DetailsName == <<"P","O"," ","D","e","t","a","i","l","s">>

\* lines 117-121: the platform without a GID is skipped with a warning
SkipSheet ==
    /\ pc = "for"
    /\ idx <= Len(SHEET_NAMES)
    /\ ~env.gid[CurrentSheet]
    /\ log' = Append(log, [level |-> "warning", sheet |-> CurrentSheet])
    /\ idx' = idx + 1
    /\ UNCHANGED <<env, pc, csv, df, all_data, main_po_df, details_df,
                   fetch_calls, result>>

\* A faulty variant of ExceptSheet: the exception leaves the function.
ExceptSheetPropagates ==
    /\ log' = log
    /\ df' = <<>>
    /\ idx' = idx
    /\ pc' = "done"
    /\ result' = Raised("Exception")
    /\ UNCHANGED <<env, all_data, main_po_df, details_df, fetch_calls>>

\* lines 185-186: the exception is printed and the loop goes on
ExceptSheet ==
    /\ log' = Append(log, [level |-> "error", sheet |-> CurrentSheet])
    /\ df' = <<>>
    /\ idx' = idx + 1
    /\ pc' = "for"
    /\ result' = result
    /\ UNCHANGED <<env, all_data, main_po_df, details_df, fetch_calls>>

\* lines 123-128 / 144: the sheet is read
ReadCsv(Pool) ==
    /\ pc = "for"
    /\ idx <= Len(SHEET_NAMES)
    /\ env.gid[CurrentSheet]
    /\ \E r \in Pool[CurrentSheet] :
          /\ csv' = Append(csv, [sheet |-> CurrentSheet, read |-> r])
          /\ IF ~r.ok
             THEN ExceptSheet
             ELSE /\ df' = ReadFrame(r.grid)
                  /\ pc' = "slice"
                  /\ UNCHANGED <<env, idx, all_data, log, main_po_df, details_df,
                                 fetch_calls, result>>

\* lines 129-156: the fixed block, the dynamic block and the column labels
Slice ==
    /\ pc = "slice"
    /\ IF SliceRaises(CurrentSheet, df)
       THEN ExceptSheet
       ELSE /\ df' = [fixed_data     |-> FixedData(RawOf(CurrentSheet, df)),
                      dynamic_data   |-> DynamicData(RawOf(CurrentSheet, df)),
                      merged_columns |-> MergedColumns(RawOf(CurrentSheet, df)),
                      id_vars        |-> IdVars(CurrentSheet)]
            /\ pc' = "melt"
            /\ UNCHANGED <<env, idx, all_data, log, main_po_df, details_df,
                           fetch_calls, result>>
    /\ UNCHANGED csv

\* lines 158-159: the unpivot
MeltStep ==
    /\ pc = "melt"
    /\ df' = Melt(df.id_vars, df.fixed_data, df.dynamic_data, df.merged_columns)
    /\ pc' = "split"
    /\ UNCHANGED <<env, idx, csv, all_data, log, main_po_df, details_df,
                   fetch_calls, result>>

\* lines 160-168: the labels split, the cells converted
SplitStep ==
    /\ pc = "split"
    /\ IF SplitRaises(df)
       THEN ExceptSheet
       ELSE /\ df' = SplitAndClean(CurrentSheet, df)
            /\ pc' = "filter"
            /\ UNCHANGED <<env, idx, all_data, log, main_po_df, details_df,
                           fetch_calls, result>>
    /\ UNCHANGED csv

\* lines 171-184: the rows filtered and appended to all_data
FilterStep ==
    /\ pc = "filter"
    /\ all_data' = Append(all_data, FinalDf(df))
    /\ df' = <<>>
    /\ idx' = idx + 1
    /\ pc' = "for"
    /\ UNCHANGED <<env, csv, log, main_po_df, details_df, fetch_calls, result>>

\* lines 188-190
ReturnMain ==
    /\ pc = "for"
    /\ idx > Len(SHEET_NAMES)
    /\ main_po_df' = IF all_data = <<>> THEN <<>> ELSE Concat(all_data)
    /\ pc' = "main_done"
    /\ UNCHANGED <<env, idx, csv, df, all_data, log, details_df, fetch_calls, result>>

\* A faulty variant of MainIsEmpty: the check of line 237 is left out.
MainIsEmptyNever == FALSE

\* line 237
MainIsEmpty == IsEmpty(main_po_df)

\* lines 237-239
ReturnEmpty ==
    /\ pc = "main_done"
    /\ MainIsEmpty
    /\ result' = Returned(<<>>)
    /\ pc' = "done"
    /\ UNCHANGED <<env, idx, csv, df, all_data, log, main_po_df, details_df,
                   fetch_calls>>

\* line 242 and lines 197-227: _fetch_and_clean_po_details, whole
FetchDetails(Pool) ==
    /\ pc = "main_done"
    /\ ~MainIsEmpty
    /\ fetch_calls' = Append(fetch_calls, idx)
    /\ IF ConfigMissing(env)
       THEN /\ result' = Raised(ConfigError)
            /\ pc' = "done"
            /\ UNCHANGED <<details_df, csv>>
       ELSE \E d \in Pool :
              /\ csv' = Append(csv, [sheet |-> DetailsName, read |-> d])
              /\ IF ~d.ok
                 THEN /\ result' = Raised("ConnectionError")
                      /\ pc' = "done"
                      /\ UNCHANGED details_df
                 ELSE IF IdColumnMissing(d)
                 THEN /\ result' = Raised("ValueError: 'PO Number' column is missing")
                      /\ pc' = "done"
                      /\ UNCHANGED details_df
                 ELSE /\ details_df' = CleanDetails(d)
                      /\ pc' = "fetched"
                      /\ UNCHANGED result
    /\ UNCHANGED <<env, idx, df, all_data, log, main_po_df>>

\* lines 243-245
ReturnWithoutDetails ==
    /\ pc = "fetched"
    /\ IsEmpty(details_df)
    /\ result' = Returned(main_po_df)
    /\ pc' = "done"
    /\ UNCHANGED <<env, idx, csv, df, all_data, log, main_po_df, details_df,
                   fetch_calls>>

\* lines 247-256
MergeStep ==
    /\ pc = "fetched"
    /\ ~IsEmpty(details_df)
    /\ result' = Returned(Merge(main_po_df, details_df))
    /\ pc' = "done"
    /\ UNCHANGED <<env, idx, csv, df, all_data, log, main_po_df, details_df,
                   fetch_calls>>

\* _process_main_po_data
NextMain(Pool) ==
    \/ SkipSheet
    \/ ReadCsv(Pool)
    \/ Slice
    \/ MeltStep
    \/ SplitStep
    \/ FilterStep
    \/ ReturnMain

\* get_final_po_data
NextRun(Pool, DetailsPool) ==
    \/ NextMain(Pool)
    \/ ReturnEmpty
    \/ FetchDetails(DetailsPool)
    \/ ReturnWithoutDetails
    \/ MergeStep

AllSet == [s \in SeqToSet(SHEET_NAMES) |-> TRUE]

\* the GIDs: all set, all but one set, one set, none set
GidConfigs ==
    {AllSet, [s \in SeqToSet(SHEET_NAMES) |-> FALSE]}
        \cup {[AllSet EXCEPT ![s] = FALSE] : s \in SeqToSet(SHEET_NAMES)}

OneGid == {[s \in SeqToSet(SHEET_NAMES) |-> s = t] : t \in SeqToSet(SHEET_NAMES)}

SecConfigs ==
    {[sec_sheet |-> TRUE, sec_gid |-> TRUE],
     [sec_sheet |-> FALSE, sec_gid |-> TRUE],
     [sec_sheet |-> TRUE, sec_gid |-> FALSE]}

\* no call of _standardize_sku_name is traced
SkuIdle ==
    /\ sku = NaN /\ cleaned_sku = NaN /\ pat = 0 /\ fired = {}
    /\ sku_pc = "idle" /\ sku_result = NaN

Start(gids, secs) ==
    /\ env \in {[gid |-> g, sec_sheet |-> c.sec_sheet, sec_gid |-> c.sec_gid] :
                   g \in gids, c \in secs}
    /\ pc = "for" /\ idx = 1 /\ csv = <<>> /\ df = <<>> /\ all_data = <<>>
    /\ log = <<>> /\ main_po_df = <<>> /\ details_df = <<>>
    /\ fetch_calls = <<>> /\ result = NoResult
    /\ SkuIdle

\* a run of get_final_po_data
\* what each platform's read may answer, per specification
SmallPool == [sheet \in SeqToSet(SHEET_NAMES) |-> SmallSheets(sheet)]

RichPool == [sheet \in SeqToSet(SHEET_NAMES) |-> RichSheets(sheet)]

POPool == [sheet \in SeqToSet(SHEET_NAMES) |-> POSheets(sheet)]

Init == Start(GidConfigs, SecConfigs)

Next == NextRun(SmallPool, SmallDetails) /\ UNCHANGED sku_vars

Spec == Init /\ [][Next]_vars

\* a call of _process_main_po_data with one platform configured, over the
\* richer sheets
InitReshape == Start(OneGid, {[sec_sheet |-> TRUE, sec_gid |-> TRUE]})

NextReshape == NextMain(RichPool) /\ UNCHANGED sku_vars

SpecReshape == InitReshape /\ [][NextReshape]_vars

\* a run of get_final_po_data with one platform configured, over the richer
\* details sheets
InitDetails == Start(OneGid, {[sec_sheet |-> TRUE, sec_gid |-> TRUE]})

NextDetails == NextRun(POPool, RichDetails) /\ UNCHANGED sku_vars

SpecDetails == InitDetails /\ [][NextDetails]_vars

-----------------------------------------------------------------------------
(* The sheet a row came from *)

\* the read recorded for a platform or for the details sheet
ReadOf(name) == csv[CHOOSE k \in 1..Len(csv) : csv[k].sheet = name].read

WasRead(name) == \E k \in 1..Len(csv) : csv[k].sheet = name /\ csv[k].read.ok

LeadOf(sheet) == IF sheet = Zepto THEN 1 ELSE 0

\* the item rows of a sheet: all but the title row, the three header rows and
\* the two footer rows; its dynamic columns: all but the four fixed columns
\* (and the leading column of the Zepto sheet)
ItemRows(grid) == Len(grid) - 6

DynamicCols(sheet, grid) == Len(grid[1]) - 4 - LeadOf(sheet)

\* the cell of item row i in fixed column c
ItemCell(sheet, grid, i, c) == grid[4 + i][LeadOf(sheet) + c]

\* the cell of item row i in dynamic column j
QuantityCell(sheet, grid, i, j) == grid[4 + i][LeadOf(sheet) + 4 + j]

\* the header cells of dynamic column j: h = 1 date, 2 city/platform, 3 PO
HeaderCell(sheet, grid, h, j) == grid[1 + h][LeadOf(sheet) + 4 + j]

\* the melt labels its rows 0, 1, ... column by column, and the row filters
\* keep the labels: the item row and the dynamic column of a row
ItemOf(grid, r) == (r.ix % ItemRows(grid)) + 1

ColumnOf(grid, r) == (r.ix \div ItemRows(grid)) + 1

\* the rows the reshaper has emitted for the platform of the current iteration
\* or, after the loop, all it has emitted
Emitted == ConcatFrames(all_data)

\* the platforms with a sheet read, each with its grid
SheetsRead == {k \in 1..Len(csv) : csv[k].sheet # DetailsName /\ csv[k].read.ok}

-----------------------------------------------------------------------------
(* C1 *)

\* the frame appended for the one configured platform of SpecReshape
OneSheet == csv[1].sheet

OneGrid == csv[1].read.grid

\* C1 as stated: every emitted row has Quantity > 0 and a non-null SKU Code,
\* City, Platform, Date and PO Number, a source cell that is empty or
\* unparseable counting as null.
C1_Claim ==
    \A k \in 1..Len(Emitted) :
        LET r == Emitted[k]
            i == ItemOf(OneGrid, r)
            j == ColumnOf(OneGrid, r)
        IN  /\ r.v["Quantity"] # <<>> /\ r.v["Quantity"][1] > 0
            /\ \A c \in {"SKU Code", "City", "Platform", "Date", "PO Number"} :
                  r.v[c] # NaN
            /\ ItemCell(OneSheet, OneGrid, i, 1) # NaN
            /\ ParseDate(HeaderCell(OneSheet, OneGrid, 1, j)) # NaN
            /\ HeaderCell(OneSheet, OneGrid, 2, j) # NaN
            /\ HeaderCell(OneSheet, OneGrid, 3, j) # NaN

-----------------------------------------------------------------------------
(* C10 *)

\* C10: after the slicing the fixed and the dynamic block have one row per
\* item row of the sheet, under the same labels; the unpivot yields N x M
\* candidate rows, and the candidate of item row i and dynamic column j holds
\* the SKU Code and SKU of row i and the quantity cell of row i in column j.
C10_Unpivot ==
    LET sheet == CurrentSheet
        grid  == ReadOf(sheet).grid
        n     == ItemRows(grid)
        m     == DynamicCols(sheet, grid)
    IN  /\ pc = "melt" =>
              /\ Len(df.fixed_data.data) = n
              /\ Len(df.dynamic_data.data) = n
              /\ df.fixed_data.index = df.dynamic_data.index
              /\ Len(df.merged_columns) = m
        /\ pc = "split" =>
              /\ Len(df) = n * m
              /\ \A i \in 1..n : \A j \in 1..m :
                    LET r == df[(j - 1) * n + i]
                    IN  /\ r.v["Quantity"] = QuantityCell(sheet, grid, i, j)
                        /\ r.v[IdVars(sheet)[1]] = ItemCell(sheet, grid, i, 1)
                        /\ r.v["SKU"] = ItemCell(sheet, grid, i, 2)
                        /\ r.v["MergedCol"] =
                              MergedLabel(HeaderCell(sheet, grid, 1, j),
                                          HeaderCell(sheet, grid, 2, j),
                                          HeaderCell(sheet, grid, 3, j))

\* the Zepto sheet with two item rows and two dynamic columns, unpivoted
C10_Witness ==
    /\ pc = "split"
    /\ CurrentSheet = Zepto
    /\ ItemRows(ReadOf(Zepto).grid) = 2
    /\ DynamicCols(Zepto, ReadOf(Zepto).grid) = 2
    /\ Len(df) = 4
    /\ df[2].v["Quantity"] # df[1].v["Quantity"]

-----------------------------------------------------------------------------
(* C7, C8 *)

\* the text before the first "/" of s, all of s when it holds none
BeforeSlash(s) ==
    IF \E p \in 1..Len(s) : s[p] = "/"
    THEN SubSeq(s, 1, (CHOOSE p \in 1..Len(s) :
                          s[p] = "/" /\ \A q \in 1..(p - 1) : s[q] # "/") - 1)
    ELSE s

AfterSlash(s) ==
    IF \E p \in 1..Len(s) : s[p] = "/"
    THEN SubSeq(s, (CHOOSE p \in 1..Len(s) :
                       s[p] = "/" /\ \A q \in 1..(p - 1) : s[q] # "/") + 1, Len(s))
    ELSE <<>>

\* the rows of the current sheet after the cells are converted, and the rows
\* emitted
Converted == IF pc = "filter" THEN df ELSE <<>>

\* the composite the split sees for a header cell: the cell as the label
\* holds it, the known typo rewritten
SeenComposite(cell) ==
    IF cell = TypoComposite THEN FixedComposite
    ELSE IF IsStr(cell) THEN cell ELSE Fmt(cell)

\* C7: every row reshaped from a sheet has that sheet's name as Platform,
\* whatever follows the "/" in its column's composite, and its City is the
\* standardized text before the first "/" of the composite.
C7_Platform ==
    \A rows \in {Converted, Emitted} : \A k \in 1..Len(rows) :
        LET r == rows[k]
            composite == HeaderCell(OneSheet, OneGrid, 2, ColumnOf(OneGrid, r))
        IN  /\ r.v["Platform"] = OneSheet
            /\ r.v["Platform"] \in SeqToSet(SHEET_NAMES)
            /\ r.v["City"] =
                   _standardize_city_name(BeforeSlash(SeenComposite(composite)))

\* an emitted row whose composite names another platform than its sheet
C7_Witness ==
    \E k \in 1..Len(Emitted) :
        LET composite == HeaderCell(OneSheet, OneGrid, 2, ColumnOf(OneGrid, Emitted[k]))
        IN  /\ IsStr(composite)
            /\ AfterSlash(composite) \in SeqToSet(SHEET_NAMES)
            /\ AfterSlash(composite) # OneSheet
            /\ Emitted[k].v["Platform"] = OneSheet
            /\ Emitted[k].v["City"] = <<"B","a","n","g","a","l","o","r","e">>

\* C8: every row of a column headed "Ballbhgarh//Zepto" has the City
\* Ballabhgarh.
C8_Typo ==
    \A rows \in {Converted, Emitted} : \A k \in 1..Len(rows) :
        HeaderCell(OneSheet, OneGrid, 2, ColumnOf(OneGrid, rows[k])) = TypoComposite
            => rows[k].v["City"] = <<"B","a","l","l","a","b","h","g","a","r","h">>

\* a row of such a column is emitted
C8_Witness ==
    \E k \in 1..Len(Emitted) :
        /\ HeaderCell(OneSheet, OneGrid, 2, ColumnOf(OneGrid, Emitted[k])) = TypoComposite
        /\ Emitted[k].v["City"] = <<"B","a","l","l","a","b","h","g","a","r","h">>

-----------------------------------------------------------------------------
(* C2 *)

Logged(level, sheet) ==
    \E k \in 1..Len(log) : log[k] = [level |-> level, sheet |-> sheet]

\* the values of the rows, without their labels
Values(rows) == [k \in 1..Len(rows) |-> rows[k].v]

RowsOf(sheet, rows) ==
    SelectIdx(rows, {k \in 1..Len(rows) : rows[k].v["Platform"] = sheet}, 1)

\* what a platform contributes, from its own configuration and sheet alone
Contribution(sheet) ==
    IF ~env.gid[sheet] \/ ~WasRead(sheet) THEN <<>>
    ELSE LET f == ReadFrame(ReadOf(sheet).grid)
         IN  IF SliceRaises(sheet, f) THEN <<>>
             ELSE LET g == RawOf(sheet, f)
                      melted == Melt(IdVars(sheet), FixedData(g), DynamicData(g),
                                     MergedColumns(g))
                  IN  IF SplitRaises(melted) THEN <<>>
                      ELSE FinalDf(SplitAndClean(sheet, melted))

\* C2: a platform whose reshaping raised contributes no row, every platform
\* is still processed (skipped, failed or appended), the rows of each platform
\* in the table _process_main_po_data returns are those its own sheet yields,
\* and no exception leaves _process_main_po_data (only the details fetch
\* raises).
C2_Isolation ==
    /\ result.kind = "raised" => (pc = "done" /\ Len(fetch_calls) = 1)
    /\ \A k \in 1..Len(log) : log[k].level = "error" =>
           RowsOf(log[k].sheet, Emitted) = <<>>
    /\ pc = "main_done" =>
           /\ Len(log) + Len(all_data) = Len(SHEET_NAMES)
           /\ \A p \in 1..Len(SHEET_NAMES) :
                 LET sheet == SHEET_NAMES[p]
                 IN  /\ Values(RowsOf(sheet, main_po_df)) = Values(Contribution(sheet))
                     /\ env.gid[sheet] <=> (\E k \in 1..Len(csv) : csv[k].sheet = sheet)

\* the second platform's label split raised, and the platforms before and
\* after it have their rows in the table
C2_Witness ==
    /\ pc = "main_done"
    /\ Logged("error", SHEET_NAMES[2])
    /\ WasRead(SHEET_NAMES[2])
    /\ RowsOf(SHEET_NAMES[1], main_po_df) # <<>>
    /\ RowsOf(SHEET_NAMES[5], main_po_df) # <<>>
    /\ RowsOf(SHEET_NAMES[2], main_po_df) = <<>>

-----------------------------------------------------------------------------
(* C3, C4 *)

DetailsUnset == ~env.sec_sheet \/ ~env.sec_gid

\* C3 as stated: with a details parameter unset the run never returns a
\* table, it raises the configuration error.
C3_Original ==
    (DetailsUnset /\ pc = "done") => result = Raised(ConfigError)

\* C3 amended: with a details parameter unset, a run whose platforms yield at
\* least one line item raises the configuration error and returns no table;
\* a run whose platforms yield none returns the empty table.
C3_Amended ==
    (DetailsUnset /\ pc = "done") =>
        IF Emitted # <<>>
        THEN result = Raised(ConfigError)
        ELSE result = Returned(<<>>)

\* a run with GID_SEC_PO unset and a line item has raised
C3_Witness ==
    /\ pc = "done"
    /\ env.sec_sheet /\ ~env.sec_gid
    /\ Emitted # <<>>
    /\ result = Raised(ConfigError)

\* C4: the details fetch is invoked at most once, only after the loop has
\* passed all five platforms and only with a line item at hand; a run whose
\* platforms yield no row returns the empty table without the fetch, any other
\* run has fetched exactly once when it ends.
C4_Fetch ==
    /\ Len(fetch_calls) <= 1
    /\ fetch_calls # <<>> =>
          /\ fetch_calls[1] = Len(SHEET_NAMES) + 1
          /\ Len(log) + Len(all_data) = Len(SHEET_NAMES)
          /\ Emitted # <<>>
    /\ pc = "done" =>
          IF Emitted = <<>>
          THEN result = Returned(<<>>) /\ fetch_calls = <<>>
          ELSE Len(fetch_calls) = 1

\* a run of five platforms without a row: one skipped, one failed and one
\* filtered out among them
C4_Witness ==
    /\ pc = "done"
    /\ Emitted = <<>>
    /\ all_data # <<>>
    /\ \E k \in 1..Len(log) : log[k].level = "warning"
    /\ \E k \in 1..Len(log) : log[k].level = "error"
    /\ result = Returned(<<>>)

-----------------------------------------------------------------------------
(* C5, C6 *)

DetailsCleaned ==
    /\ WasRead(DetailsName)
    /\ ~IdColumnMissing(ReadOf(DetailsName))

\* the column of the details sheet that holds the PO numbers
POColumn(d) ==
    CHOOSE j \in 1..Len(d.columns) : d.columns[j] \in {"PO No.", "PO Number"}

\* the PO number of row i of the details sheet, as text and trimmed
TrimmedPO(d, i) == Strip(Fmt(d.data[i][POColumn(d)]))

\* a column of a record, NaN when the record has no such column
Field(v, c) == IF c \in DOMAIN v THEN v[c] ELSE NaN

DetailColumns == SeqToSet(columns_to_keep) \ {"PO Number"}

\* C5: the returned table has one record per line item, in the line items'
\* order; the record carries the line item's own columns and, in the detail
\* columns, the cells of the cleaned detail row with its PO Number, NaN when
\* there is none.
C5_Merge ==
    (pc = "done" /\ result.kind = "returned") =>
        /\ Len(result.table) = Len(main_po_df)
        /\ \A i \in 1..Len(main_po_df) :
              LET out  == result.table[i].v
                  line == main_po_df[i].v
                  hits == {k \in 1..Len(details_df) :
                              details_df[k].v["PO Number"] = line["PO Number"]}
              IN  /\ \A c \in FinalColumns : out[c] = line[c]
                  /\ DOMAIN out \subseteq FinalColumns \cup DetailColumns
                  /\ \A c \in DetailColumns :
                        IF hits = {}
                        THEN Field(out, c) = NaN
                        ELSE \A k \in hits : Field(out, c) = Field(details_df[k].v, c)

\* a merged table with a matched and an unmatched line item, from a details
\* sheet that held a PO number twice
C5_Witness ==
    /\ pc = "done" /\ result.kind = "returned"
    /\ DetailsCleaned
    /\ Len(ReadOf(DetailsName).data) > Len(details_df)
    /\ \E i \in 1..Len(result.table) :
          Field(result.table[i].v, "PO VALUE") \notin {NaN}
    /\ \E i \in 1..Len(result.table) :
          /\ "PO VALUE" \in DOMAIN result.table[i].v
          /\ result.table[i].v["PO VALUE"] = NaN

\* C6: the cleaned details hold every PO number trimmed and at most once,
\* and the row kept for a PO number is the first row of the sheet that has
\* it once trimmed.
C6_Dedup ==
    DetailsCleaned =>
        LET d == ReadOf(DetailsName)
        IN  /\ \A a, b \in 1..Len(details_df) :
                  details_df[a].v["PO Number"] = details_df[b].v["PO Number"] => a = b
            /\ \A a \in 1..Len(details_df) :
                  details_df[a].v["PO Number"] = Strip(details_df[a].v["PO Number"])
            /\ \A i \in 1..Len(d.data) :
                  \E a \in 1..Len(details_df) :
                      /\ details_df[a].v["PO Number"] = TrimmedPO(d, i)
                      /\ details_df[a].ix + 1 <= i
                      /\ TrimmedPO(d, details_df[a].ix + 1) = TrimmedPO(d, i)
                      /\ \A h \in 1..details_df[a].ix : TrimmedPO(d, h) # TrimmedPO(d, i)

\* two rows whose PO numbers differ by surrounding blanks only, one kept
C6_Witness ==
    /\ DetailsCleaned
    /\ LET d == ReadOf(DetailsName)
       IN  /\ Len(d.data) = 2
           /\ d.data[1][POColumn(d)] # d.data[2][POColumn(d)]
           /\ IsStr(d.data[1][POColumn(d)]) /\ IsStr(d.data[2][POColumn(d)])
           /\ TrimmedPO(d, 1) = TrimmedPO(d, 2)
    /\ Len(details_df) = 1
    /\ details_df[1].ix = 0

-----------------------------------------------------------------------------
(* The standardizer run step by step on one argument *)

MaxPieces == 3

\* the pieces the arguments are made of
SkuPieces ==
    { <<"B","a","r">>, <<" ">>, <<" ","1","5","0","g">>, <<" ","1","5","0"," ","G">>, <<" ","2","8">>, <<"(","P","o","u","c","h",")">>,
      <<" ","(","p","o","u","c","h",")">>, <<"R","u","s","k">> }

RECURSIVE Flatten(_)
Flatten(ss) == IF ss = <<>> THEN <<>> ELSE Head(ss) \o Flatten(Tail(ss))

SkuInputs ==
    {NaN} \cup
    UNION { {Flatten(ps) : ps \in [1..n -> SkuPieces]} : n \in 0..MaxPieces }

\* no run of the pipeline
PipelineIdle ==
    /\ env = [gid |-> AllSet, sec_sheet |-> TRUE, sec_gid |-> TRUE]
    /\ pc = "idle" /\ idx = 0 /\ csv = <<>> /\ df = <<>> /\ all_data = <<>>
    /\ log = <<>> /\ main_po_df = <<>> /\ details_df = <<>>
    /\ fetch_calls = <<>> /\ result = NoResult

InitSku ==
    /\ sku \in SkuInputs
    /\ cleaned_sku = NaN /\ pat = 0 /\ fired = {}
    /\ sku_pc = "enter" /\ sku_result = NaN
    /\ PipelineIdle

\* lines 78-84: the two early returns
SkuEarlyReturn ==
    /\ sku_pc = "enter"
    /\ ~IsStr(sku) \/ HasException(sku)
    /\ sku_result' = sku
    /\ sku_pc' = "done"
    /\ UNCHANGED <<sku, cleaned_sku, pat, fired>>

\* line 95
SkuBegin ==
    /\ sku_pc = "enter"
    /\ IsStr(sku) /\ ~HasException(sku)
    /\ cleaned_sku' = sku
    /\ pat' = 1
    /\ sku_pc' = "loop"
    /\ UNCHANGED <<sku, fired, sku_result>>

\* lines 96-97: one iteration of the loop
SkuApplyPattern ==
    /\ sku_pc = "loop"
    /\ pat <= Len(patterns_to_remove)
    /\ cleaned_sku' = PatternSub(patterns_to_remove[pat], cleaned_sku)
    /\ fired' = IF cleaned_sku' # cleaned_sku THEN fired \cup {pat} ELSE fired
    /\ pat' = pat + 1
    /\ UNCHANGED <<sku, sku_pc, sku_result>>

\* line 99
SkuReturn ==
    /\ sku_pc = "loop"
    /\ pat > Len(patterns_to_remove)
    /\ sku_result' = Strip(cleaned_sku)
    /\ sku_pc' = "done"
    /\ UNCHANGED <<sku, cleaned_sku, pat, fired>>

NextSku ==
    /\ (SkuEarlyReturn \/ SkuBegin \/ SkuApplyPattern \/ SkuReturn)
    /\ UNCHANGED pipeline_vars

SpecSku == InitSku /\ [][NextSku]_vars

-----------------------------------------------------------------------------
(* C9 *)

\* the three distinct trailing patterns: weight, bare number, (Pouch)
DistinctPatterns == {1, 3, 4}

MatchesInput(k, s) == MatchStarts(patterns_to_remove[k], s) # {}

\* the text with only the single trailing suffix it ends with removed
StripSingleSuffix(s) ==
    IF \E k \in DistinctPatterns : MatchesInput(k, s)
    THEN PatternSub(patterns_to_remove[CHOOSE k \in DistinctPatterns : MatchesInput(k, s)], s)
    ELSE s

SkuDoneNoKeyword == sku_pc = "done" /\ IsStr(sku) /\ ~HasException(sku)

\* C9 as stated: without a protected keyword at most one pattern removes
\* text, and the result is the text with its single trailing suffix removed.
C9_Original ==
    SkuDoneNoKeyword =>
        /\ Cardinality(fired) <= 1
        /\ sku_result = Strip(StripSingleSuffix(sku))

\* C9 amended: without a protected keyword at most one of the three distinct
\* patterns matches the argument itself; a later pattern (the repeated weight
\* pattern included) may still match what an earlier removal exposed, and the
\* result is the text with its single trailing suffix removed exactly when at
\* most one pattern removed text.
C9_Amended ==
    SkuDoneNoKeyword =>
        /\ Cardinality({k \in DistinctPatterns : MatchesInput(k, sku)}) <= 1
        /\ (Cardinality(fired) <= 1) <=> (sku_result = Strip(StripSingleSuffix(sku)))
        /\ sku_result = _standardize_sku_name(sku)

\* a run in which two patterns each removed a suffix
C9_Witness ==
    /\ SkuDoneNoKeyword
    /\ Cardinality(fired) >= 2
    /\ sku_result # Strip(StripSingleSuffix(sku))

=============================================================================
